---- MODULE Spec2Model ----
(***************************************************************************)
(* Model of examples/1_linear_regression.py: a Bayesian linear regression  *)
(* of winter-wheat yield on soil rating.  The script is a straight-line    *)
(* program: environment set-up, version assertion, seeding, data loading,  *)
(* four model functions, the sampling driver (prior predictive + MCMC for  *)
(* sigma_b in [1,5]) and the plotting of figures 2 and 3.                  *)
(*                                                                         *)
(* Real numbers are exact rationals <<num, den>> (den > 0, lowest terms).  *)
(* Arrays are records [shape, data] with row-major data, as numpy/jax.     *)
(* A JAX PRNG key is the path of splits that leads to it from the seed.    *)
(***************************************************************************)
EXTENDS Integers, Sequences, FiniteSets, TLC

VARIABLES
    pc,             \* position of the script
    run,            \* 1 = first execution of the script, 2 = second execution
    env,            \* what the machine offers: [version, gpu, files]
    platform,       \* numpyro.set_platform(...)                 (lines 22-25)
    rng_key,        \* carried key                               (line 42)
    rng_key_,       \* subkey of the latest split                (lines 110, 118)
    Soil, Yield,    \* standardized columns of the wheat rows    (lines 54-55)
    scale_train,    \* scaling statistics                        (line 48)
    lowtrunc_scale, \* truncation point of model_trunc           (line 84)
    model,          \* the function the name `model` is bound to (lines 65, 100)
    todo,           \* the prior widths the driver loop still has to visit
    sigma_b,        \* loop variable of the driver               (line 106)
    prior_samples,  \* result of the prior predictive            (line 112)
    mcmc,           \* state of the MCMC object                  (lines 120-121)
    post_samples,   \* mcmc.get_samples()                        (line 131)
    lstRes,         \* list of result units                      (lines 105, 134)
    axFig2, axFig3, \* what was drawn on the panels of figures 2 and 3
    saved,          \* figure files written                      (lines 250-251)
    icol,           \* loop variable of the plotting loop      (line 157)
    calls,          \* history: every stochastic operation with its arguments
    splits,         \* history: every random.split the script has made
    firstRes,       \* history: what the first execution loaded and drew
    trace           \* SpecModels only: the trace of the latest model call

vars == <<pc, run, env, platform, rng_key, rng_key_, Soil, Yield, scale_train,
          lowtrunc_scale, model, todo, sigma_b, prior_samples, mcmc,
          post_samples, lstRes, axFig2, axFig3, saved, icol, calls,
          splits, firstRes, trace>>

----------------------------------------------------------------------------
(* Bounds of the model *)

\* number of wheat rows in the training table
NRows == 2
\* largest soil rating / yield (natural units) the data loader returns
MaxNat == 1
\* largest number of columns of a design matrix handed to model_matrix
MaxCols == 2
\* largest seed of a key handed to a model function called on its own
MaxSeed == 1

----------------------------------------------------------------------------
(* Exact rational arithmetic (Python floats, idealised) *)

RECURSIVE GCD(_, _)
GCD(a, b) == IF b = 0 THEN a ELSE GCD(b, a % b)

Abs(n) == IF n < 0 THEN -n ELSE n

\* n/d in lowest terms with a positive denominator (d # 0)
Rat(n, d) ==
    LET g == GCD(Abs(n), Abs(d))
        s == IF d < 0 THEN -1 ELSE 1
    IN  <<(s * n) \div g, (s * d) \div g>>

I(n) == <<n, 1>>
RAdd(a, b) == Rat(a[1] * b[2] + b[1] * a[2], a[2] * b[2])
RSub(a, b) == Rat(a[1] * b[2] - b[1] * a[2], a[2] * b[2])
RMul(a, b) == Rat(a[1] * b[1], a[2] * b[2])
RDiv(a, b) == Rat(a[1] * b[2], a[2] * b[1])
RLe(a, b)  == a[1] * b[2] <= b[1] * a[2]
RLt(a, b)  == a[1] * b[2] <  b[1] * a[2]

----------------------------------------------------------------------------
(* Arrays *)

RECURSIVE Prod(_)
Prod(s) == IF s = <<>> THEN 1 ELSE Head(s) * Prod(Tail(s))

Size(a) == Prod(a.shape)
Scalar(x) == [shape |-> <<>>, data |-> <<x>>]
Vector(xs) == [shape |-> <<Len(xs)>>, data |-> xs]

\* elementwise product with numpy broadcasting of a scalar operand
Times(a, b) ==
    IF a.shape = <<>> THEN [shape |-> b.shape,
                            data |-> [j \in 1..Size(b) |-> RMul(a.data[1], b.data[j])]]
    ELSE IF b.shape = <<>> THEN [shape |-> a.shape,
                            data |-> [j \in 1..Size(a) |-> RMul(a.data[j], b.data[1])]]
    ELSE [shape |-> a.shape,
          data |-> [j \in 1..Size(a) |-> RMul(a.data[j], b.data[j])]]

RECURSIVE Dot(_, _, _)
Dot(u, v, k) == IF k = 0 THEN I(0) ELSE RAdd(Dot(u, v, k - 1), RMul(u[k], v[k]))

\* X @ v for X of shape <<n, p>> and v of shape <<p>>
MatVec(X, v) ==
    LET n == X.shape[1]
        p == X.shape[2]
    IN  [shape |-> <<n>>,
         data |-> [i \in 1..n |->
                     Dot([k \in 1..p |-> X.data[(i - 1) * p + k]], v.data, p)]]

\* a[i] on the leading axis, i counted from 0 as in Python
Row(a, i) ==
    LET rest == Tail(a.shape)
        sz == Prod(rest)
    IN  [shape |-> rest, data |-> [k \in 1..sz |-> a.data[i * sz + k]]]

\* jnp.stack of n arrays of one shape, given as a function of 1..n
Stack(n, f, shp) ==
    LET sz == Prod(shp)
    IN  [shape |-> <<n>> \o shp,
         data |-> [k \in 1..(n * sz) |-> f[((k - 1) \div sz) + 1].data[((k - 1) % sz) + 1]]]

\* the first two axes merged into one
Merge2(a) ==
    [shape |-> <<a.shape[1] * a.shape[2]>> \o Tail(Tail(a.shape)), data |-> a.data]

----------------------------------------------------------------------------
(* jax.random *)

PRNGKey(seed) == <<seed>>

\* random.split(key): two new keys
split(key) == <<Append(key, 0), Append(key, 1)>>

\* random.split(key, n): n new keys
splitN(key, n) == [i \in 1..n |-> Append(key, i - 1)]

\* the bits a key yields, folded to a number
RECURSIVE Bits(_)
Bits(key) == IF key = <<>> THEN 7 ELSE (Bits(Tail(key)) * 31 + Head(key) * 17 + 3) % 1009

\* the bits element j of a batch gets from the key of its site
BitsAt(key, j) == Bits(Append(key, j))

----------------------------------------------------------------------------
(* numpyro.distributions *)

Normal(loc, scale) == [name |-> "Normal", loc |-> loc, scale |-> scale, batch |-> loc.shape]
Exponential(rate) == [name |-> "Exponential", rate |-> rate, batch |-> <<>>]
StudentT(df, loc, scale) ==
    [name |-> "StudentT", df |-> df, loc |-> loc, scale |-> scale, batch |-> loc.shape]
LeftTruncatedDistribution(base, low) ==
    [name |-> "LeftTruncated", base |-> base, low |-> low, batch |-> base.batch]
\* d.expand(shape)
expand(d, shp) == [d EXCEPT !.batch = shp]

\* standard variates a sampler can turn its bits into
ZGrid == <<I(-2), I(-1), I(0), I(1), I(2)>>
EGrid == <<Rat(1, 2), I(1), I(3)>>
TGrid == <<I(-9), I(-1), I(0), I(1), I(9)>>
UGrid == <<Rat(1, 4), I(1), I(5)>>

Pick(grid, b) == grid[(b % Len(grid)) + 1]

\* parameter p of a distribution at element j of the batch
At(p, j) == IF p.shape = <<>> THEN p.data[1] ELSE p.data[j]

\* one element of d.sample(key)
SampleAt(d, key, j) ==
    CASE d.name = "Normal" ->
           RAdd(At(d.loc, j), RMul(At(d.scale, j), Pick(ZGrid, BitsAt(key, j))))
      [] d.name = "Exponential" ->
           RDiv(Pick(EGrid, BitsAt(key, j)), d.rate)
      [] d.name = "StudentT" ->
           RAdd(At(d.loc, j), RMul(At(d.scale, j), Pick(TGrid, BitsAt(key, j))))
      [] d.name = "LeftTruncated" ->
           \* a point of the base distribution's tail above `low`
           RAdd(d.low, RMul(At(d.base.scale, j), Pick(UGrid, BitsAt(key, j))))

\* d.sample(key): an array of the distribution's batch shape
DistSample(d, key) ==
    [shape |-> d.batch, data |-> [j \in 1..Prod(d.batch) |-> SampleAt(d, key, j)]]

----------------------------------------------------------------------------
(* numpyro.sample under the seed handler *)

None == [given |-> FALSE, v |-> Scalar(I(0))]
Some(a) == [given |-> TRUE, v |-> a]

\* h is the handler state [key, sites]; a site that is not observed takes a
\* fresh subkey of the handler's key and draws its value with it
sample(h, name, d, obs) ==
    IF obs.given
    THEN [key |-> h.key,
          sites |-> Append(h.sites, [name |-> name, is_observed |-> TRUE,
                                     value |-> obs.v, fn |-> d.name,
                                     key |-> <<>>])]
    ELSE [key |-> split(h.key)[1],
          sites |-> Append(h.sites, [name |-> name, is_observed |-> FALSE,
                                     value |-> DistSample(d, split(h.key)[2]),
                                     fn |-> d.name, key |-> split(h.key)[2]])]

seed(key) == [key |-> key, sites |-> <<>>]

\* value of the latest site of the trace
Last(h) == h.sites[Len(h.sites)].value

----------------------------------------------------------------------------
(* Data loading: util.load_yield_data.getData, and lines 48-55 *)

\* the scaling statistics the loader may return (natural units, std > 0)
ScaleChoices ==
    { [bodenzahl_mean |-> I(1), bodenzahl_std |-> I(2),
       Winterweizen_yield_mean |-> I(1), Winterweizen_yield_std |-> I(1)],
      [bodenzahl_mean |-> I(1), bodenzahl_std |-> I(2),
       Winterweizen_yield_mean |-> I(2), Winterweizen_yield_std |-> I(3)] }

\* (x - mean) / std
standardize(x, mean, std) == RDiv(RSub(x, mean), std)

\* natural columns of the wheat rows: ratings and yields are never negative
SoilColumns == { [i \in 1..NRows |-> (b + i) % (MaxNat + 1)] : b \in 0..1 }
YieldColumns == { [i \in 1..NRows |-> (b * i) % (MaxNat + 1)] : b \in 0..MaxNat }

\* the loader's result for given natural columns and statistics
getData(soilNat, yieldNat, st) ==
    [bodenzahl_scaled |->
        Vector([i \in 1..NRows |->
                  standardize(I(soilNat[i]), st.bodenzahl_mean, st.bodenzahl_std)]),
     yield_scaled |->
        Vector([i \in 1..NRows |->
                  standardize(I(yieldNat[i]), st.Winterweizen_yield_mean,
                              st.Winterweizen_yield_std)]),
     scale_train |-> st]

----------------------------------------------------------------------------
(* The model functions, lines 65-91.  Each returns the handler state after  *)
(* its three sample statements; h0 is the handler state it is called with.  *)

\* def model(Soil, Yield=None), lines 65-68
model_fn(soil, yield, h0) ==
    LET h1 == sample(h0, "beta", Normal(Scalar(I(0)), Scalar(I(1))), None)
        beta == Last(h1)
        h2 == sample(h1, "sigma", Exponential(I(1)), None)
        sigma == Last(h2)
    IN  sample(h2, "Yield", Normal(Times(soil, beta), sigma), yield)

\* def model_matrix(X, Y=None), lines 72-75
model_matrix(X, Y, h0) ==
    LET h1 == sample(h0, "beta",
                     expand(Normal(Scalar(I(0)), Scalar(I(1))), <<X.shape[2]>>), None)
        beta == Last(h1)
        h2 == sample(h1, "sigma", Exponential(I(4)), None)
        sigma == Last(h2)
    IN  sample(h2, "Y", Normal(MatVec(X, beta), sigma), Y)

\* faulty variant of model_sigma_b: the likelihood is written without obs=Yield
model_sigma_b_unobserved(soil, sb, yield, h0) ==
    LET h1 == sample(h0, "beta", Normal(Scalar(I(0)), Scalar(I(sb))), None)
        beta == Last(h1)
        h2 == sample(h1, "sigma", Exponential(I(1)), None)
        sigma == Last(h2)
    IN  sample(h2, "Yield", Normal(Times(soil, beta), sigma), None)

\* def model_sigma_b(Soil, sigma_b, Yield=None), lines 78-81
model_sigma_b(soil, sb, yield, h0) ==
    LET h1 == sample(h0, "beta", Normal(Scalar(I(0)), Scalar(I(sb))), None)
        beta == Last(h1)
        h2 == sample(h1, "sigma", Exponential(I(1)), None)
        sigma == Last(h2)
    IN  sample(h2, "Yield", Normal(Times(soil, beta), sigma), yield)

\* faulty variant of line 84: the mean is taken with the wrong sign
LowTruncScaleFlipped(st) ==
    RDiv(RSub(st.Winterweizen_yield_mean, I(0)), st.Winterweizen_yield_std)

\* line 84
LowTruncScale(st) ==
    RDiv(RSub(I(0), st.Winterweizen_yield_mean), st.Winterweizen_yield_std)

\* degrees of freedom of the student-t distribution, line 88
df == 5

\* def model_trunc(Soil, sigma_b, Yield=None), lines 85-91; reads the global
\* lowtrunc_scale when it is called
model_trunc(soil, sb, yield, h0) ==
    LET h1 == sample(h0, "beta", Normal(Scalar(I(0)), Scalar(I(sb))), None)
        beta == Last(h1)
        h2 == sample(h1, "sigma", Exponential(I(1)), None)
        sigma == Last(h2)
    IN  sample(h2, "Yield",
               LeftTruncatedDistribution(StudentT(df, Times(soil, beta), sigma),
                                         lowtrunc_scale),
               yield)

----------------------------------------------------------------------------
(* Environment and constants of the script *)

\* the version string the assertion of line 34 asks for, character by character
Pinned == <<"0", ".", "1", "3", ".", "0">>

\* str.startswith
startswith(str, prefix) ==
    /\ Len(str) >= Len(prefix)
    /\ SubSeq(str, 1, Len(prefix)) = prefix

\* machines the script may be started on: installed numpyro version, GPUs
Envs ==
    { [version |-> Pinned, gpus |-> 0],
      [version |-> Pinned \o <<".", "1">>, gpus |-> 1],
      [version |-> <<"0", ".", "1", "3", ".", "1">>, gpus |-> 1],
      [version |-> <<"0", ".", "1", "2", ".", "0">>, gpus |-> 0],
      [version |-> <<"0", ".", "1", "3">>, gpus |-> 1] }

\* line 42
Seed == 1
\* line 103
nPriorSamples == 1000
\* line 120
num_samples == 800
num_warmup == 1000
num_chains == 2
\* lines 177, 224: number of grid points; lines 182, 230: range(1,300)
GridPoints == 100
GridLow == -5
GridHigh == 5
LinesFrom == 1
LinesTo == 300

NoScale ==
    [bodenzahl_mean |-> I(0), bodenzahl_std |-> I(0),
     Winterweizen_yield_mean |-> I(0), Winterweizen_yield_std |-> I(0)]
NoArray == Vector(<<>>)
NoSamples == [beta |-> NoArray]
NoMcmc == [num_samples |-> 0, num_warmup |-> 0, num_chains |-> 0, states |-> NoSamples]
NoFigure == <<>>
NoTrace == [call |-> "none", obs |-> None, sites |-> <<>>]
NoFirst == [Soil |-> NoArray, scale_train |-> NoScale, prior |-> <<>>]

----------------------------------------------------------------------------
(* numpyro.infer *)

\* the call model(Soil=..., sigma_b=..., Yield=...) for the function bound to m
ApplyModel(m, soil, sb, yield, h0) ==
    CASE m = "model_sigma_b" -> model_sigma_b(soil, sb, yield, h0)
      [] m = "model_trunc"   -> model_trunc(soil, sb, yield, h0)

SiteNames(sites) == {sites[k].name : k \in 1..Len(sites)}
Site(sites, nm) == sites[CHOOSE k \in 1..Len(sites) : sites[k].name = nm]

\* Predictive(m, num_samples=n)(key, Soil=soil, sigma_b=sb, Yield=yield):
\* the key is split into n keys, the model runs once under each, and the
\* values of its sample sites are stacked along a new leading axis
Predictive(m, n, key, soil, sb, yield) ==
    LET keys == splitN(key, n)
        tr == [i \in 1..n |-> ApplyModel(m, soil, sb, yield, seed(keys[i])).sites]
    IN  [nm \in SiteNames(tr[1]) |->
            Stack(n, [i \in 1..n |-> Site(tr[i], nm).value], Site(tr[1], nm).value.shape)]

\* faulty variant of Collected: the warm-up iterations are kept as well
CollectedWithWarmup(warmup, samples) == [t \in 1..(warmup + samples) |-> t]

\* the iterations of a chain whose states MCMC keeps: those after the warm-up
Collected(warmup, samples) == [t \in 1..samples |-> warmup + t]

\* what the posterior draws are conditioned on, folded to a number
Digest(soil, yield, plat) ==
    Bits([j \in 1..Size(soil) |-> soil.data[j][1] * 13 + soil.data[j][2]]
         \o [j \in 1..Size(yield) |-> yield.data[j][1] * 13 + yield.data[j][2]]
         \o <<IF plat = "gpu" THEN 1 ELSE 0>>)

\* MCMC(NUTS(m), num_samples=ns, num_warmup=nw, num_chains=nc)
\*     .run(key, Soil=soil, sigma_b=sb, Yield=yield):
\* the key is split into one key per chain; the latent sites are the sample
\* sites of the model that are not observed; each chain keeps the state of
\* every iteration after its warm-up.  A NUTS state is not computed: it is
\* named by its chain, its iteration and what the density was conditioned on.
McmcRun(m, ns, nw, nc, key, soil, sb, yield, plat) ==
    LET keys == splitN(key, nc)
        sites == ApplyModel(m, soil, sb, Some(yield), seed(key)).sites
        latent == {sites[k].name : k \in {j \in 1..Len(sites) : ~sites[j].is_observed}}
        kept == Collected(nw, ns)
        by == Digest(soil, yield, plat)
        n == Len(kept)
    IN  [num_samples |-> ns, num_warmup |-> nw, num_chains |-> nc,
         states |->
            [nm \in latent |->
                [shape |-> <<nc, n>> \o Site(sites, nm).value.shape,
                 data |-> [k \in 1..(nc * n) |->
                             [site |-> nm, chain |-> keys[((k - 1) \div n) + 1],
                              iter |-> kept[((k - 1) % n) + 1], sb |-> sb, by |-> by]]]]]

\* faulty variant of get_samples: get_samples(group_by_chain=True)
get_samples_by_chain(m) == m.states

\* mcmc.get_samples(): group_by_chain is False, the chains are concatenated
get_samples(m) == [nm \in DOMAIN m.states |-> Merge2(m.states[nm])]

----------------------------------------------------------------------------
(* numpy helpers of the plotting code *)

\* np.linspace(a, b, n)
linspace(a, b, n) == [k \in 1..n |-> Rat(a * (n - 1) + (b - a) * (k - 1), n - 1)]

\* range(a, b)
range(a, b) == [k \in 1..(b - a) |-> a + k - 1]

NoPanel == [title |-> 0, hists |-> <<>>, lines |-> <<>>, x_range |-> <<>>,
            xlim |-> <<>>, ylim |-> <<>>]
\* np.array([top.subplots(1, 2), bot.subplots(1, 2)]): rows and columns 0, 1
Panels == [rc \in {0, 1} \X {0, 1} |-> NoPanel]

\* the fan of regression lines of lines 177-187 and 224-233: one line per
\* index of range(1,300), each over the grid of 100 abscissae
Fan(beta) ==
    LET idx == range(LinesFrom, LinesTo)
    IN  [k \in 1..Len(idx) |->
           [i |-> idx[k], coef |-> Row(beta, idx[k]).data[1], npts |-> GridPoints]]

\* x_range of lines 181 and 229
XRange(st) ==
    LET x_range_scaled == linspace(GridLow, GridHigh, GridPoints)
    IN  [k \in 1..GridPoints |->
           RAdd(RMul(x_range_scaled[k], st.bodenzahl_std), st.bodenzahl_mean)]

----------------------------------------------------------------------------
(* The script, top to bottom *)

Init ==
    /\ pc = "setup"
    /\ run = 1
    /\ env \in Envs
    /\ platform = "unset"
    /\ rng_key = <<>>
    /\ rng_key_ = <<>>
    /\ Soil = NoArray
    /\ Yield = NoArray
    /\ scale_train = NoScale
    /\ lowtrunc_scale = I(0)
    /\ model = "unbound"
    /\ todo = <<>>
    /\ sigma_b = 0
    /\ prior_samples = NoSamples
    /\ mcmc = NoMcmc
    /\ post_samples = NoSamples
    /\ lstRes = <<>>
    /\ axFig2 = NoFigure
    /\ axFig3 = NoFigure
    /\ saved = {}
    /\ icol = 0
    /\ calls = <<>>
    /\ splits = <<>>
    /\ firstRes = NoFirst
    /\ trace = NoTrace

\* lines 22-31
Setup ==
    /\ pc = "setup"
    /\ platform' = IF env.gpus > 0 THEN "gpu" ELSE "cpu"
    /\ pc' = "assert"
    /\ UNCHANGED <<run, env, rng_key, rng_key_, Soil, Yield, scale_train,
                   lowtrunc_scale, model, todo, sigma_b, prior_samples, mcmc,
                   post_samples, lstRes, axFig2, axFig3, saved, icol, calls,
                   splits, firstRes, trace>>

\* faulty variant of line 34: the assertion is not made
AssertVersionSkipped ==
    /\ pc = "assert"
    /\ pc' = "seed"
    /\ UNCHANGED <<run, env, platform, rng_key, rng_key_, Soil, Yield,
                   scale_train, lowtrunc_scale, model, todo, sigma_b,
                   prior_samples, mcmc, post_samples, lstRes, axFig2, axFig3,
                   saved, icol, calls, splits, firstRes, trace>>

\* line 34: an AssertionError ends the script
AssertVersion ==
    /\ pc = "assert"
    /\ pc' = IF startswith(env.version, Pinned) THEN "seed" ELSE "halted"
    /\ UNCHANGED <<run, env, platform, rng_key, rng_key_, Soil, Yield,
                   scale_train, lowtrunc_scale, model, todo, sigma_b,
                   prior_samples, mcmc, post_samples, lstRes, axFig2, axFig3,
                   saved, icol, calls, splits, firstRes, trace>>

\* faulty variant of line 42: the key is seeded from the machine
SetSeedFromMachine ==
    /\ pc = "seed"
    /\ rng_key' = PRNGKey(Seed + env.gpus)
    /\ pc' = "load"
    /\ UNCHANGED <<run, env, platform, rng_key_, Soil, Yield, scale_train,
                   lowtrunc_scale, model, todo, sigma_b, prior_samples, mcmc,
                   post_samples, lstRes, axFig2, axFig3, saved, icol, calls,
                   splits, firstRes, trace>>

\* lines 36-43
SetSeed ==
    /\ pc = "seed"
    /\ rng_key' = PRNGKey(Seed)
    /\ pc' = "load"
    /\ UNCHANGED <<run, env, platform, rng_key_, Soil, Yield, scale_train,
                   lowtrunc_scale, model, todo, sigma_b, prior_samples, mcmc,
                   post_samples, lstRes, axFig2, axFig3, saved, icol, calls,
                   splits, firstRes, trace>>

\* lines 47-59; a second execution finds the soil ratings and the scaling
\* statistics of the first one
LoadData ==
    /\ pc = "load"
    /\ \E sn \in SoilColumns, yn \in YieldColumns, st \in ScaleChoices :
          LET d == getData(sn, yn, st)
          IN  /\ run = 2 => /\ d.bodenzahl_scaled = firstRes.Soil
                            /\ d.scale_train = firstRes.scale_train
              /\ Soil' = d.bodenzahl_scaled
              /\ Yield' = d.yield_scaled
              /\ scale_train' = d.scale_train
    /\ pc' = "models"
    /\ UNCHANGED <<run, env, platform, rng_key, rng_key_, lowtrunc_scale,
                   model, todo, sigma_b, prior_samples, mcmc, post_samples,
                   lstRes, axFig2, axFig3, saved, icol, calls, splits,
                   firstRes, trace>>

\* lines 65-91: the four functions are defined, `model` names the first one
DefineModels ==
    /\ pc = "models"
    /\ model' = "model"
    /\ lowtrunc_scale' = LowTruncScale(scale_train)
    /\ pc' = "driver"
    /\ UNCHANGED <<run, env, platform, rng_key, rng_key_, Soil, Yield,
                   scale_train, todo, sigma_b, prior_samples, mcmc,
                   post_samples, lstRes, axFig2, axFig3, saved, icol, calls,
                   splits, firstRes, trace>>

\* lines 100-105
StartDriver ==
    /\ pc = "driver"
    /\ model' = "model_sigma_b"
    /\ lstRes' = <<>>
    /\ todo' = <<1, 5>>
    /\ pc' = "for"
    /\ UNCHANGED <<run, env, platform, rng_key, rng_key_, Soil, Yield,
                   scale_train, lowtrunc_scale, sigma_b, prior_samples, mcmc,
                   post_samples, axFig2, axFig3, saved, icol, calls, splits,
                   firstRes, trace>>

\* line 106
ForSigmaB ==
    /\ pc = "for"
    /\ IF todo = <<>>
       THEN /\ pc' = "figures"
            /\ UNCHANGED <<sigma_b, todo>>
       ELSE /\ sigma_b' = Head(todo)
            /\ todo' = Tail(todo)
            /\ pc' = "split_prior"
    /\ UNCHANGED <<run, env, platform, rng_key, rng_key_, Soil, Yield,
                   scale_train, lowtrunc_scale, model, prior_samples, mcmc,
                   post_samples, lstRes, axFig2, axFig3, saved, icol, calls,
                   splits, firstRes, trace>>

\* rng_key, rng_key_ = random.split(rng_key)
SplitKey(next) ==
    /\ rng_key' = split(rng_key)[1]
    /\ rng_key_' = split(rng_key)[2]
    /\ splits' = Append(splits, [from |-> rng_key, carried |-> split(rng_key)[1],
                                 sub |-> split(rng_key)[2]])
    /\ pc' = next
    /\ UNCHANGED <<run, env, platform, Soil, Yield, scale_train, lowtrunc_scale,
                   model, todo, sigma_b, prior_samples, mcmc, post_samples,
                   lstRes, axFig2, axFig3, saved, icol, calls, firstRes, trace>>

\* line 110
SplitForPrior ==
    /\ pc = "split_prior"
    /\ SplitKey("prior")

\* faulty variant of lines 111-112: the prior is drawn with the first prior
\* width whatever the iteration
SamplePriorFirstWidth ==
    /\ pc = "prior"
    /\ prior_samples' = Predictive(model, nPriorSamples, rng_key_, Soil, 1, None)
    /\ calls' = Append(calls, [op |-> "prior_predictive", key |-> rng_key_,
                               sigma_b |-> 1, obs |-> None.given])
    /\ pc' = "split_mcmc"
    /\ UNCHANGED <<run, env, platform, rng_key, rng_key_, Soil, Yield,
                   scale_train, lowtrunc_scale, model, todo, sigma_b, mcmc,
                   post_samples, lstRes, axFig2, axFig3, saved, icol, splits,
                   firstRes, trace>>

\* faulty variant of lines 111-112: the prior predictive is handed Yield
SamplePriorWithYield ==
    /\ pc = "prior"
    /\ prior_samples' = Predictive(model, nPriorSamples, rng_key_, Soil, sigma_b,
                                   Some(Yield))
    /\ calls' = Append(calls, [op |-> "prior_predictive", key |-> rng_key_,
                               sigma_b |-> sigma_b, obs |-> Some(Yield).given])
    /\ pc' = "split_mcmc"
    /\ UNCHANGED <<run, env, platform, rng_key, rng_key_, Soil, Yield,
                   scale_train, lowtrunc_scale, model, todo, sigma_b, mcmc,
                   post_samples, lstRes, axFig2, axFig3, saved, icol, splits,
                   firstRes, trace>>

\* lines 111-112
SamplePrior ==
    /\ pc = "prior"
    /\ prior_samples' = Predictive(model, nPriorSamples, rng_key_, Soil, sigma_b, None)
    /\ calls' = Append(calls, [op |-> "prior_predictive", key |-> rng_key_,
                               sigma_b |-> sigma_b, obs |-> None.given])
    /\ pc' = "split_mcmc"
    /\ UNCHANGED <<run, env, platform, rng_key, rng_key_, Soil, Yield,
                   scale_train, lowtrunc_scale, model, todo, sigma_b, mcmc,
                   post_samples, lstRes, axFig2, axFig3, saved, icol, splits,
                   firstRes, trace>>

\* faulty variant of line 118: the key is not split before the MCMC run
SplitForMcmcSkipped ==
    /\ pc = "split_mcmc"
    /\ pc' = "mcmc"
    /\ UNCHANGED <<run, env, platform, rng_key, rng_key_, Soil, Yield,
                   scale_train, lowtrunc_scale, model, todo, sigma_b,
                   prior_samples, mcmc, post_samples, lstRes, axFig2, axFig3,
                   saved, icol, calls, splits, firstRes, trace>>

\* lines 117-118
SplitForMcmc ==
    /\ pc = "split_mcmc"
    /\ SplitKey("mcmc")

\* lines 119-122
RunMcmc ==
    /\ pc = "mcmc"
    /\ mcmc' = McmcRun(model, num_samples, num_warmup, num_chains, rng_key_,
                       Soil, sigma_b, Yield, platform)
    /\ calls' = Append(calls, [op |-> "mcmc.run", key |-> rng_key_,
                               sigma_b |-> sigma_b, obs |-> Some(Yield).given])
    /\ pc' = "get_samples"
    /\ UNCHANGED <<run, env, platform, rng_key, rng_key_, Soil, Yield,
                   scale_train, lowtrunc_scale, model, todo, sigma_b,
                   prior_samples, post_samples, lstRes, axFig2, axFig3, saved,
                   icol, splits, firstRes, trace>>

\* lines 131-138
AppendResult ==
    /\ pc = "get_samples"
    /\ post_samples' = get_samples(mcmc)
    /\ lstRes' = Append(lstRes, [post_samples |-> post_samples',
                                 prior_samples |-> prior_samples,
                                 sigma_b |-> sigma_b])
    /\ pc' = "for"
    /\ UNCHANGED <<run, env, platform, rng_key, rng_key_, Soil, Yield,
                   scale_train, lowtrunc_scale, model, todo, sigma_b,
                   prior_samples, mcmc, axFig2, axFig3, saved, icol, calls,
                   splits, firstRes, trace>>

\* lines 143-155
MakeFigures ==
    /\ pc = "figures"
    /\ axFig2' = Panels
    /\ axFig3' = Panels
    /\ icol' = 0
    /\ pc' = "plot"
    /\ UNCHANGED <<run, env, platform, rng_key, rng_key_, Soil, Yield,
                   scale_train, lowtrunc_scale, model, todo, sigma_b,
                   prior_samples, mcmc, post_samples, lstRes, saved, calls,
                   splits, firstRes, trace>>

\* lines 157-246: one pass of the loop over enumerate(lstRes)
PlotColumn ==
    /\ pc = "plot"
    /\ icol < Len(lstRes)
    /\ LET res == lstRes[icol + 1]
           prior == res.prior_samples
           post == res.post_samples
           sb == res.sigma_b
       IN  /\ prior_samples' = prior
           /\ post_samples' = post
           /\ sigma_b' = sb
           /\ axFig2' = [axFig2 EXCEPT
                 ![<<0, icol>>] = [@ EXCEPT
                     !.hists = <<[label |-> "Yield", n |-> Size(prior.Yield)]>>,
                     !.title = sb],
                 ![<<1, icol>>] = [@ EXCEPT
                     !.x_range = XRange(scale_train),
                     !.lines = Fan(prior.beta),
                     !.title = sb,
                     !.xlim = <<30, 70>>,
                     !.ylim = IF sb = 1 THEN <<0, 15>> ELSE <<-20, 40>>]]
           /\ axFig3' = [axFig3 EXCEPT
                 ![<<0, icol>>] = [@ EXCEPT
                     !.hists = <<[label |-> "prior", n |-> Size(prior.beta)],
                                 [label |-> "posterior", n |-> Size(post.beta)]>>,
                     !.title = sb,
                     !.xlim = <<-1, 1>>],
                 ![<<1, icol>>] = [@ EXCEPT
                     !.x_range = XRange(scale_train),
                     !.lines = Fan(post.beta),
                     !.title = sb,
                     !.xlim = <<30, 70>>]]
    /\ icol' = icol + 1
    /\ UNCHANGED <<pc, run, env, platform, rng_key, rng_key_, Soil, Yield,
                   scale_train, lowtrunc_scale, model, todo, mcmc, lstRes,
                   saved, calls, splits, firstRes, trace>>

\* lines 248-251
SaveFigures ==
    /\ pc = "plot"
    /\ icol = Len(lstRes)
    /\ saved' = saved \cup {"figures/linReg_figure2.png", "figures/linReg_figure3.png"}
    /\ pc' = "done"
    /\ UNCHANGED <<run, env, platform, rng_key, rng_key_, Soil, Yield,
                   scale_train, lowtrunc_scale, model, todo, sigma_b,
                   prior_samples, mcmc, post_samples, lstRes, axFig2, axFig3,
                   icol, calls, splits, firstRes, trace>>

\* the script is started a second time, on any machine, with the seed of
\* line 42 unchanged; what the first execution loaded and drew is remembered
RunAgain ==
    /\ pc = "done"
    /\ run = 1
    /\ run' = 2
    /\ firstRes' = [Soil |-> Soil, scale_train |-> scale_train,
                    prior |-> [k \in 1..Len(lstRes) |-> lstRes[k].prior_samples]]
    /\ env' \in Envs
    /\ pc' = "setup"
    /\ platform' = "unset"
    /\ rng_key' = <<>>
    /\ rng_key_' = <<>>
    /\ Soil' = NoArray
    /\ Yield' = NoArray
    /\ scale_train' = NoScale
    /\ lowtrunc_scale' = I(0)
    /\ model' = "unbound"
    /\ todo' = <<>>
    /\ sigma_b' = 0
    /\ prior_samples' = NoSamples
    /\ mcmc' = NoMcmc
    /\ post_samples' = NoSamples
    /\ lstRes' = <<>>
    /\ axFig2' = NoFigure
    /\ axFig3' = NoFigure
    /\ saved' = {}
    /\ icol' = 0
    /\ calls' = <<>>
    /\ splits' = <<>>
    /\ UNCHANGED trace

Next ==
    \/ Setup
    \/ AssertVersion
    \/ SetSeed
    \/ LoadData
    \/ DefineModels
    \/ StartDriver
    \/ ForSigmaB
    \/ SplitForPrior
    \/ SamplePrior
    \/ SplitForMcmc
    \/ RunMcmc
    \/ AppendResult
    \/ MakeFigures
    \/ PlotColumn
    \/ SaveFigures
    \/ RunAgain

Spec == Init /\ [][Next]_vars

----------------------------------------------------------------------------
(* SpecModels: the four model functions called on their own, in the state   *)
(* the script is in once line 93 has run.                                   *)

Widths == {1, 5}
KeyInputs == {PRNGKey(s) : s \in 0..MaxSeed}
\* design matrices of NRows rows: column k holds the k-th power of Soil
RECURSIVE Pow(_, _)
Pow(x, k) == IF k = 0 THEN I(1) ELSE RMul(x, Pow(x, k - 1))
Design(p) ==
    [shape |-> <<NRows, p>>,
     data |-> [j \in 1..(NRows * p) |->
                 Pow(Soil.data[((j - 1) \div p) + 1], ((j - 1) % p) + 1)]]
Designs == {Design(p) : p \in 1..MaxCols}
Responses == {None, Some(Yield)}


\* what a call leaves behind: the function, its response argument, its trace
Traced(name, obs, h) == [call |-> name, obs |-> obs, sites |-> h.sites]

InitModels ==
    /\ pc = "models"
    /\ run = 1
    /\ env = [version |-> Pinned, gpus |-> 0]
    /\ platform = "cpu"
    /\ rng_key = PRNGKey(1)
    /\ rng_key_ = <<>>
    /\ \E sn \in SoilColumns, yn \in YieldColumns, st \in ScaleChoices :
          /\ Soil = getData(sn, yn, st).bodenzahl_scaled
          /\ Yield = getData(sn, yn, st).yield_scaled
          /\ scale_train = getData(sn, yn, st).scale_train
    /\ lowtrunc_scale = LowTruncScale(scale_train)
    /\ model = "model"
    /\ todo = <<>>
    /\ sigma_b = 0
    /\ prior_samples = NoSamples
    /\ mcmc = NoMcmc
    /\ post_samples = NoSamples
    /\ lstRes = <<>>
    /\ axFig2 = NoFigure
    /\ axFig3 = NoFigure
    /\ saved = {}
    /\ icol = 0
    /\ calls = <<>>
    /\ splits = <<>>
    /\ firstRes = NoFirst
    /\ trace = NoTrace

driverVars == <<pc, run, env, platform, rng_key, rng_key_, Soil, Yield,
                scale_train, lowtrunc_scale, model, todo, sigma_b,
                prior_samples, mcmc, post_samples, lstRes, axFig2, axFig3,
                saved, icol, calls, splits, firstRes>>

CallModel ==
    /\ trace = NoTrace
    /\ \E y \in Responses, k \in KeyInputs :
          trace' = Traced("model", y, model_fn(Soil, y, seed(k)))
    /\ UNCHANGED driverVars

CallModelMatrix ==
    /\ trace = NoTrace
    /\ \E X \in Designs, y \in Responses, k \in KeyInputs :
          trace' = Traced("model_matrix", y, model_matrix(X, y, seed(k)))
    /\ UNCHANGED driverVars

CallModelSigmaB ==
    /\ trace = NoTrace
    /\ \E sb \in Widths, y \in Responses, k \in KeyInputs :
          trace' = Traced("model_sigma_b", y, model_sigma_b(Soil, sb, y, seed(k)))
    /\ UNCHANGED driverVars

CallModelTrunc ==
    /\ trace = NoTrace
    /\ \E sb \in Widths, y \in Responses, k \in KeyInputs :
          trace' = Traced("model_trunc", y, model_trunc(Soil, sb, y, seed(k)))
    /\ UNCHANGED driverVars

NextModels == CallModel \/ CallModelMatrix \/ CallModelSigmaB \/ CallModelTrunc

SpecModels == InitModels /\ [][NextModels]_vars

----------------------------------------------------------------------------
(* Properties *)

DriverFinished == pc \in {"figures", "plot", "done"}
UnitFields == {"post_samples", "prior_samples", "sigma_b"}

\* C1: once the driver has finished, lstRes holds exactly two units, for
\* sigma_b = 1 and then sigma_b = 5; a unit holds its prior samples, its
\* posterior samples and its sigma_b, and both collections were produced with
\* the sigma_b the unit records: every posterior draw was conditioned on that
\* sigma_b and, when the driver hands over to the plotting code, the prior
\* samples are what the prior predictive yields for that sigma_b under the
\* key of the unit's prior call.
C1_ResultUnits ==
    /\ DriverFinished =>
          /\ Len(lstRes) = 2
          /\ lstRes[1].sigma_b = 1
          /\ lstRes[2].sigma_b = 5
          /\ \A k \in 1..2 :
                LET u == lstRes[k]
                IN  /\ DOMAIN u = UnitFields
                    /\ calls[2 * k - 1].sigma_b = u.sigma_b
                    /\ calls[2 * k].sigma_b = u.sigma_b
                    /\ \A nm \in DOMAIN u.post_samples :
                          \A j \in 1..Size(u.post_samples[nm]) :
                             /\ u.post_samples[nm].data[j].sb = u.sigma_b
                             /\ u.post_samples[nm].data[j].chain
                                   \in {splitN(calls[2 * k].key, num_chains)[c] :
                                           c \in 1..num_chains}
    /\ pc = "figures" =>
          \A k \in 1..2 :
              lstRes[k].prior_samples =
                  Predictive("model_sigma_b", nPriorSamples, calls[2 * k - 1].key,
                             Soil, lstRes[k].sigma_b, None)

C1_Witness == pc = "done" /\ Len(lstRes) = 2

\* C2: the key is split before every stochastic operation: the i-th
\* operation (prior predictive or MCMC run) is handed the subkey of the i-th
\* split, no two operations are handed the same key, no operation is handed
\* a key that is or was the carried key, and whenever the script is about to
\* sample, rng_key_ is the subkey of a split no operation has used yet.
C2_FreshSubkeys ==
    /\ \A i \in 1..Len(calls) :
          /\ i <= Len(splits)
          /\ calls[i].key = splits[i].sub
          /\ \A j \in 1..Len(calls) : j # i => calls[j].key # calls[i].key
          /\ calls[i].key # PRNGKey(Seed)
          /\ \A j \in 1..Len(splits) :
                /\ calls[i].key # splits[j].carried
                /\ calls[i].key # splits[j].from
    /\ pc \in {"prior", "mcmc"} =>
          /\ Len(splits) = Len(calls) + 1
          /\ rng_key_ = splits[Len(splits)].sub
          /\ rng_key = splits[Len(splits)].carried

C2_Witness == Len(calls) = 4 /\ Len(splits) = 4

\* C3: for every prior width the prior predictive holds nPriorSamples draws
\* of Yield, one per row of Soil; the prior predictive is called without
\* Yield, its Yield values are drawn, and it is called before the MCMC run of
\* its iteration: when it returns, no MCMC run of that prior width exists.
C3_PriorPredictive ==
    /\ \A k \in 1..Len(lstRes) :
          /\ lstRes[k].prior_samples.Yield.shape = <<nPriorSamples, NRows>>
          /\ Len(lstRes[k].prior_samples.Yield.data) = nPriorSamples * NRows
    /\ \A i \in 1..Len(calls) :
          /\ (i % 2 = 1) <=> (calls[i].op = "prior_predictive")
          /\ calls[i].op = "prior_predictive" => ~calls[i].obs
    /\ pc = "split_mcmc" =>
          /\ prior_samples.Yield.shape = <<nPriorSamples, NRows>>
          /\ calls[Len(calls)].op = "prior_predictive"
          /\ calls[Len(calls)].sigma_b = sigma_b
          /\ \A i \in 1..Len(calls) :
                calls[i].op = "mcmc.run" => calls[i].sigma_b # sigma_b
          /\ \A nm \in DOMAIN mcmc.states :
                \A j \in 1..Size(mcmc.states[nm]) :
                   mcmc.states[nm].data[j].sb # sigma_b

C3_Witness ==
    /\ Len(lstRes) = 2
    /\ lstRes[2].sigma_b = 5
    /\ lstRes[2].prior_samples.Yield.shape[1] = nPriorSamples

\* C4: for both prior widths the recorded posterior holds
\* num_chains * num_samples = 1600 draws of every parameter, all of them of
\* iterations after the warm-up.
C4_PosteriorCount ==
    \A k \in 1..Len(lstRes) :
        \A nm \in DOMAIN lstRes[k].post_samples :
            LET a == lstRes[k].post_samples[nm]
            IN  /\ a.shape[1] = num_chains * num_samples
                /\ a.shape[1] = 1600
                /\ Len(a.data) = 1600 * Prod(Tail(a.shape))
                /\ \A j \in 1..Len(a.data) :
                      /\ a.data[j].iter > num_warmup
                      /\ a.data[j].iter <= num_warmup + num_samples
                /\ DOMAIN lstRes[k].post_samples = {"beta", "sigma"}

C4_Witness ==
    /\ Len(lstRes) = 2
    /\ lstRes[1].sigma_b = 1
    /\ lstRes[2].sigma_b = 5
    /\ lstRes[2].post_samples.beta.shape[1] = 1600

\* C6: a version that does not begin with the pinned string stops the script
\* at the assertion of line 34, before any data is loaded, any sample is drawn
\* or any figure is written; a version that begins with it never stops there.
C6_VersionAssert ==
    /\ ~startswith(env.version, Pinned) =>
          /\ pc \in {"setup", "assert", "halted"}
          /\ Soil = NoArray
          /\ Yield = NoArray
          /\ calls = <<>>
          /\ splits = <<>>
          /\ lstRes = <<>>
          /\ saved = {}
    /\ startswith(env.version, Pinned) => pc # "halted"
    /\ pc \in {"seed", "load", "models", "driver", "for", "split_prior", "prior",
               "split_mcmc", "mcmc", "get_samples", "figures", "plot", "done"} =>
          startswith(env.version, Pinned)

C6_Witness == pc = "halted" /\ ~startswith(env.version, Pinned)

Drawn(panel) == panel.lines # <<>>

First300(panel) ==
    Drawn(panel) =>
        /\ Len(panel.lines) = 300
        /\ {panel.lines[j].i : j \in 1..Len(panel.lines)} = 0..299
        /\ \A j \in 1..Len(panel.lines) : panel.lines[j].npts = 100
        /\ Len(panel.x_range) = 100
        /\ panel.x_range[1] =
              RAdd(RMul(I(-5), scale_train.bodenzahl_std), scale_train.bodenzahl_mean)
        /\ panel.x_range[100] =
              RAdd(RMul(I(5), scale_train.bodenzahl_std), scale_train.bodenzahl_mean)

\* C7: every fan that has been drawn, prior (figure 2) or posterior
\* (figure 3), holds 300 lines, one for each of the sample indices 0..299,
\* each over the grid of 100 soil values from -5 to 5 (standardized).
C7_FanFirst300 ==
    \A rc \in DOMAIN axFig2 : First300(axFig2[rc]) /\ First300(axFig3[rc])

\* C8 as claimed: every recorded array keeps the chain axis as a leading axis
\* of its own: number of chains x number of samples x dimension.
C8_ChainAxisKept ==
    \A k \in 1..Len(lstRes) :
        /\ \A nm \in DOMAIN lstRes[k].post_samples :
              /\ Len(lstRes[k].post_samples[nm].shape) >= 2
              /\ lstRes[k].post_samples[nm].shape[1] = num_chains
              /\ lstRes[k].post_samples[nm].shape[2] = num_samples
        /\ \A nm \in DOMAIN lstRes[k].prior_samples :
              Len(lstRes[k].prior_samples[nm].shape) >= 2

\* C8 as amended: the recorded arrays have no chain axis.  A posterior array
\* is indexed (num_chains * num_samples) x dimension, the chains one after the
\* other; a prior array is indexed nPriorSamples x dimension.
C8_FlatSamples ==
    \A k \in 1..Len(lstRes) :
        LET u == lstRes[k]
        IN  /\ u.post_samples.beta.shape = <<num_chains * num_samples>>
            /\ u.post_samples.sigma.shape = <<num_chains * num_samples>>
            /\ \A nm \in DOMAIN u.post_samples :
                  \A j \in 1..(num_chains * num_samples) :
                     u.post_samples[nm].data[j].chain =
                        splitN(calls[2 * k].key, num_chains)[((j - 1) \div num_samples) + 1]
            /\ u.prior_samples.beta.shape = <<nPriorSamples>>
            /\ u.prior_samples.sigma.shape = <<nPriorSamples>>
            /\ u.prior_samples.Yield.shape = <<nPriorSamples, NRows>>

C8_Witness ==
    /\ Len(lstRes) = 2
    /\ lstRes[2].post_samples.beta.shape # <<>>
    /\ mcmc.states.beta.shape = <<num_chains, num_samples>>

\* C10: a second execution of the script, on whatever machine and whatever
\* yields it loads, records for each prior width the prior samples the first
\* execution recorded for it, given the seed and the soil data of the first.
C10_PriorReproducible ==
    run = 2 =>
        \A k \in 1..Len(lstRes) :
            /\ k <= Len(firstRes.prior)
            /\ lstRes[k].prior_samples = firstRes.prior[k]

C10_Witness == run = 2 /\ pc = "done" /\ Len(lstRes) = 2 /\ Len(firstRes.prior) = 2

ResponseName(call) == IF call = "model_matrix" THEN "Y" ELSE "Yield"

\* C5: in the trace of each of the four model functions beta and sigma are
\* drawn from their priors; the response site is drawn from the likelihood
\* when the response argument is omitted, and holds exactly the supplied
\* values, undrawn, when it is given.
C5_ResponseSite ==
    trace.call # "none" =>
        /\ Len(trace.sites) = 3
        /\ trace.sites[1].name = "beta"
        /\ ~trace.sites[1].is_observed
        /\ trace.sites[1].fn = "Normal"
        /\ trace.sites[2].name = "sigma"
        /\ ~trace.sites[2].is_observed
        /\ trace.sites[2].fn = "Exponential"
        /\ trace.sites[3].name = ResponseName(trace.call)
        /\ trace.sites[3].fn = IF trace.call = "model_trunc" THEN "LeftTruncated"
                                                             ELSE "Normal"
        /\ trace.sites[3].is_observed = trace.obs.given
        /\ trace.obs.given => trace.sites[3].value = trace.obs.v
        /\ ~trace.obs.given => /\ trace.sites[3].key # <<>>
                               /\ trace.sites[3].value.shape = <<NRows>>

C5_Witness ==
    /\ trace.call = "model_trunc"
    /\ trace.obs.given
    /\ trace.sites[3].is_observed

\* C9: every response value of model_trunc, drawn or observed, is at least
\* the truncation point, and the truncation point is the standardized value
\* of a yield of zero under the scaling statistics in force at the call.
C9_Truncation ==
    /\ lowtrunc_scale = standardize(I(0), scale_train.Winterweizen_yield_mean,
                                    scale_train.Winterweizen_yield_std)
    /\ trace.call = "model_trunc" =>
          \A j \in 1..Size(trace.sites[3].value) :
              RLe(lowtrunc_scale, trace.sites[3].value.data[j])

C9_Witness ==
    /\ trace.call = "model_trunc"
    /\ ~trace.obs.given
    /\ ~trace.sites[3].is_observed
    /\ RLt(lowtrunc_scale, I(0))
    /\ \E j \in 1..Size(trace.sites[3].value) :
          RLt(lowtrunc_scale, trace.sites[3].value.data[j])

====
